---- MODULE Spec2Model ----
(***************************************************************************)
(* Model of the Mob state machine of                                       *)
(* evennia/contrib/tutorials/tutorial_world/mob.py: one Mob object, the    *)
(* TICKER_HANDLER subscriptions bound to it, and the rooms and characters  *)
(* its ticks look at.                                                      *)
(*                                                                         *)
(* Representation choices:                                                 *)
(*  - The record `mob` holds the mob's db attributes, its ndb flags, its   *)
(*    location, and the TICKER_HANDLER store restricted to this mob and    *)
(*    the idstring "neoeden_mob" (field tickers, a set of                  *)
(*    <<interval, hook>> store keys).  Field calls is the list of          *)
(*    TICKER_HANDLER calls made by the handler that ran last, and raised   *)
(*    says whether that handler ended in an exception.  Field out is the  *)
(*    list of what that handler sent out, as <<call, to, what, exclude>>:  *)
(*    messages, the attack command, the error log.                         *)
(*  - charLoc is the location of every other object; op names the handler  *)
(*    that ran last, its arguments and the location the mob had when it    *)
(*    started; hits counts the at_hit calls.                               *)
(*  - The random ambient message of a tick (db.irregular_msgs) and the     *)
(*    random attack verb change nothing of the state and are left out.     *)
(*  - The record `caller` is the character that runs the intro menu of   *)
(*    intro_menu.py: its location, its cmdset stack, its attribute        *)
(*    neoeden_demo_room_data, the demo objects that exist, and whether    *)
(*    the menu is open.  The Mob handlers leave it alone and the menu     *)
(*    callbacks leave the mob alone.                                      *)
(*  - Python None: NoneInterval for an interval, "None" for a hook key or  *)
(*    a location, NoHealth for db.health.                                  *)
(*  - db.health is kept as health * damage_resistance, an integer, so      *)
(*    that `damage /= damage_resistance` is exact.                         *)
(***************************************************************************)
EXTENDS Integers, Sequences, FiniteSets, TLC

VARIABLES mob, charLoc, op, hits, caller

vars == <<mob, charLoc, op, hits, caller>>

----------------------------------------------------------------------------
(* Program constants: Mob.at_object_creation *)

damage_resistance == 100
patrolling_pace == 6
aggressive_pace == 2
hunting_pace == 1
death_pace == 90
full_health == 25

(* Encodings of None *)
NoneInterval == 0 - 1
NoHealth == 0 - 1000000

(* db.health and db.full_health in units of 1/damage_resistance *)
FullHealthUnits == full_health * damage_resistance

----------------------------------------------------------------------------
(* Bounds *)

MaxHits == 2

(* raw damage values handed to at_hit *)
RawDamages == {10, 30, 2500}

----------------------------------------------------------------------------
(* The world the mob queries: rooms, exits in enumeration order with the   *)
(* result of exi.access(mob, "traverse"), and room contents in order.      *)

Rooms == {"r1", "r2", "r3"}
home == "r1"
recovery_bay == "bay"

Exits(room) ==
    CASE room = "r1" -> << [destination |-> "r2", traverse |-> TRUE],
                           [destination |-> "r3", traverse |-> TRUE] >>
      [] room = "r2" -> << [destination |-> "r3", traverse |-> FALSE],
                           [destination |-> "r1", traverse |-> TRUE] >>
      [] room = "r3" -> << [destination |-> "r1", traverse |-> FALSE] >>
      [] OTHER -> << >>

(* contents order of every room *)
Chars == << "crate", "admin", "p1", "p2" >>
CharSet == {Chars[i] : i \in 1..Len(Chars)}
has_account(c) == c \in {"admin", "p1", "p2"}
is_superuser(c) == c = "admin"
(* the rooms a character walks to on its own *)
Roam(c) == IF c = "p1" THEN Rooms
           ELSE IF c = "p2" THEN {"r3", recovery_bay}
           ELSE {}

----------------------------------------------------------------------------
(* Python truthiness of the values _set_ticker tests *)

IntervalTruthy(i) == i # NoneInterval /\ i # 0
HookTruthy(h) == h # "None" /\ h # ""

(* names getattr(self, hook_key) resolves on a Mob *)
MobHooks == {"set_alive", "do_patrol", "do_hunt", "do_attack"}

(* obj.msg, location.msg_contents, execute_cmd, logger.log_err *)
Send(s, call, to, what, exclude) ==
    [s EXCEPT !.out = Append(@, <<call, to, what, exclude>>)]

(* TICKER_HANDLER.remove / TICKER_HANDLER.add on the store of this mob *)
TickerRemove(s, interval, hook) ==
    [s EXCEPT !.tickers = @ \ {<<interval, hook>>},
              !.calls = Append(@, <<"remove", interval, hook>>)]

TickerAdd(s, interval, hook) ==
    [s EXCEPT !.tickers = @ \cup {<<interval, hook>>},
              !.calls = Append(@, <<"add", interval, hook>>)]

(* _set_ticker without the removal of the previous subscription *)
set_ticker_no_remove(s, interval, hook_key, stop) ==
    LET s2 == [s EXCEPT !.last_ticker_interval = interval,
                        !.last_hook_key = hook_key]
    IN  IF ~stop /\ IntervalTruthy(interval) /\ HookTruthy(hook_key)
        THEN TickerAdd(s2, interval, hook_key)
        ELSE s2

(* _set_ticker that does not record db.last_hook_key *)
set_ticker_no_last_hook(s, interval, hook_key, stop) ==
    LET last_interval == s.last_ticker_interval
        last_hook_key == s.last_hook_key
        removing == IntervalTruthy(last_interval) /\ HookTruthy(last_hook_key)
        s1 == IF removing
              THEN TickerRemove(s, last_interval, last_hook_key)
              ELSE s
        s2 == [s1 EXCEPT !.last_ticker_interval = interval,
                         !.last_hook_key =
                            IF HookTruthy(@) THEN @ ELSE hook_key]
    IN  IF ~stop /\ IntervalTruthy(interval) /\ HookTruthy(hook_key)
        THEN TickerAdd(s2, interval, hook_key)
        ELSE s2

(* _set_ticker that returns early when the subscription asked for is the *)
(* one recorded                                                           *)
set_ticker_skip_same(s, interval, hook_key, stop) ==
    LET last_interval == s.last_ticker_interval
        last_hook_key == s.last_hook_key
        removing == IntervalTruthy(last_interval) /\ HookTruthy(last_hook_key)
        s1 == IF removing
              THEN TickerRemove(s, last_interval, last_hook_key)
              ELSE s
        s2 == [s1 EXCEPT !.last_ticker_interval = interval,
                         !.last_hook_key = hook_key]
    IN  IF ~stop /\ interval = last_interval /\ hook_key = last_hook_key
        THEN s
        ELSE IF ~stop /\ IntervalTruthy(interval) /\ HookTruthy(hook_key)
        THEN TickerAdd(s2, interval, hook_key)
        ELSE s2

(* _set_ticker that does not look at stop *)
set_ticker_ignores_stop(s, interval, hook_key, stop) ==
    LET last_interval == s.last_ticker_interval
        last_hook_key == s.last_hook_key
        removing == IntervalTruthy(last_interval) /\ HookTruthy(last_hook_key)
        s1 == IF removing
              THEN TickerRemove(s, last_interval, last_hook_key)
              ELSE s
        s2 == [s1 EXCEPT !.last_ticker_interval = interval,
                         !.last_hook_key = hook_key]
    IN  IF IntervalTruthy(interval) /\ hook_key \in MobHooks
        THEN TickerAdd(s2, interval, hook_key)
        ELSE s2

(* Mob._set_ticker.  getattr(self, last_hook_key) raises AttributeError for *)
(* a name that is no attribute of the mob, before anything is assigned.    *)
set_ticker(s, interval, hook_key, stop) ==
    LET last_interval == s.last_ticker_interval
        last_hook_key == s.last_hook_key
        removing == IntervalTruthy(last_interval) /\ HookTruthy(last_hook_key)
        s1 == IF removing
              THEN TickerRemove(s, last_interval, last_hook_key)
              ELSE s
        s2 == [s1 EXCEPT !.last_ticker_interval = interval,
                         !.last_hook_key = hook_key]
    IN  IF removing /\ last_hook_key \notin MobHooks
        THEN [s EXCEPT !.raised = TRUE]
        ELSE IF ~stop /\ IntervalTruthy(interval) /\ HookTruthy(hook_key)
        THEN TickerAdd(s2, interval, hook_key)
        ELSE s2

(* every object of the world in contents order, the mob among them, and   *)
(* the location of each: loc for the characters, the mob's own location   *)
Objects == << "mob" >> \o Chars
Located(s, loc) ==
    [o \in CharSet \cup {"mob"} |-> IF o = "mob" THEN s.location ELSE loc[o]]

(* location.contents_get(exclude=self), in contents order; where is the   *)
(* location of every object                                               *)
Contents(where, location) ==
    SelectSeq(Objects, LAMBDA o : where[o] = location /\ o # "mob")

(* _find_target that takes superusers too *)
find_target_any_account(where, location) ==
    LET targets == SelectSeq(Contents(where, location),
                             LAMBDA c : has_account(c))
    IN  IF targets # << >> THEN targets[1] ELSE "None"

(* Mob._find_target: the first account-controlled non-superuser, or None *)
find_target(where, location) ==
    LET targets == SelectSeq(Contents(where, location),
                             LAMBDA c : has_account(c) /\ ~is_superuser(c))
    IN  IF targets # << >> THEN targets[1] ELSE "None"

----------------------------------------------------------------------------
(* State setters *)

(* set_dead that leaves the mob where it is *)
set_dead_keeps_location(s) ==
    set_ticker([s EXCEPT !.is_dead = TRUE,
                         !.is_patrolling = FALSE,
                         !.is_attacking = FALSE,
                         !.is_hunting = FALSE,
                         !.is_immortal = TRUE],
               death_pace, "set_alive", FALSE)

(* Mob.set_dead *)
set_dead(s) ==
    set_ticker([s EXCEPT !.is_dead = TRUE,
                         !.location = "None",
                         !.is_patrolling = FALSE,
                         !.is_attacking = FALSE,
                         !.is_hunting = FALSE,
                         !.is_immortal = TRUE],
               death_pace, "set_alive", FALSE)

(* Mob.start_idle *)
start_idle(s) == set_ticker(s, NoneInterval, "None", TRUE)

(* start_patrolling that leaves the health as it is *)
start_patrolling_keeps_health(s) ==
    IF ~s.patrolling
    THEN start_idle(s)
    ELSE LET s1 == set_ticker(s, patrolling_pace, "do_patrol", FALSE)
         IN  IF s1.raised THEN s1
             ELSE [s1 EXCEPT !.is_patrolling = TRUE,
                             !.is_hunting = FALSE,
                             !.is_attacking = FALSE]

(* Mob.start_patrolling *)
start_patrolling(s) ==
    IF ~s.patrolling
    THEN start_idle(s)
    ELSE LET s1 == set_ticker(s, patrolling_pace, "do_patrol", FALSE)
         IN  IF s1.raised THEN s1
             ELSE [s1 EXCEPT !.is_patrolling = TRUE,
                             !.is_hunting = FALSE,
                             !.is_attacking = FALSE,
                             !.health = FullHealthUnits]

(* start_hunting that subscribes do_hunt at the patrolling pace *)
start_hunting_patrol_pace(s) ==
    IF ~s.hunting
    THEN start_patrolling(s)
    ELSE LET s1 == set_ticker(s, patrolling_pace, "do_hunt", FALSE)
         IN  IF s1.raised THEN s1
             ELSE [s1 EXCEPT !.is_patrolling = FALSE,
                             !.is_hunting = TRUE,
                             !.is_attacking = FALSE]

(* start_hunting that does not look at db.hunting *)
start_hunting_any(s) ==
    LET s1 == set_ticker(s, hunting_pace, "do_hunt", FALSE)
    IN  IF s1.raised THEN s1
        ELSE [s1 EXCEPT !.is_patrolling = FALSE,
                        !.is_hunting = TRUE,
                        !.is_attacking = FALSE]

(* Mob.start_hunting *)
start_hunting(s) ==
    IF ~s.hunting
    THEN start_patrolling(s)
    ELSE LET s1 == set_ticker(s, hunting_pace, "do_hunt", FALSE)
         IN  IF s1.raised THEN s1
             ELSE [s1 EXCEPT !.is_patrolling = FALSE,
                             !.is_hunting = TRUE,
                             !.is_attacking = FALSE]

(* Mob.start_attacking *)
start_attacking(s) ==
    IF ~s.aggressive
    THEN start_hunting(s)
    ELSE LET s1 == set_ticker(s, aggressive_pace, "do_attack", FALSE)
         IN  IF s1.raised THEN s1
             ELSE [s1 EXCEPT !.is_patrolling = FALSE,
                             !.is_hunting = FALSE,
                             !.is_attacking = TRUE]

(* set_alive that does not move a mob without location to its home *)
set_alive_no_move(s) ==
    LET s1 == [s EXCEPT !.health = FullHealthUnits,
                        !.is_dead = FALSE,
                        !.is_immortal = s.immortal,
                        !.is_patrolling = s.patrolling]
    IN  IF s1.patrolling THEN start_patrolling(s1) ELSE s1

(* set_alive that does not reset db.is_dead *)
set_alive_stays_dead(s) ==
    LET s1 == [s EXCEPT !.health = FullHealthUnits,
                        !.is_immortal = s.immortal,
                        !.is_patrolling = s.patrolling]
        s2 == IF s1.location = "None"
              THEN [s1 EXCEPT !.location = home]
              ELSE s1
    IN  IF s2.patrolling THEN start_patrolling(s2) ELSE s2

(* Mob.set_alive *)
set_alive(s) ==
    LET s1 == [s EXCEPT !.health = FullHealthUnits,
                        !.is_dead = FALSE,
                        !.is_immortal = s.immortal,
                        !.is_patrolling = s.patrolling]
        s2 == IF s1.location = "None"
              THEN [s1 EXCEPT !.location = home]
              ELSE s1
    IN  IF s2.patrolling THEN start_patrolling(s2) ELSE s2

(* Mob.at_init *)
at_init(s) ==
    [s EXCEPT !.is_patrolling = s.patrolling /\ ~s.is_dead,
              !.is_attacking = FALSE,
              !.is_hunting = FALSE,
              !.is_immortal = s.immortal \/ s.is_dead]

----------------------------------------------------------------------------
(* Reaction hooks *)

(* the end of Mob.at_hit, once the damage is subtracted *)
hit_outcome(s) ==
    IF s.health <= 0
    THEN set_dead(Send(s, "msg", "attacker", "death_msg", ""))
    ELSE IF s.aggressive /\ ~s.is_attacking
         THEN start_attacking(s)
         ELSE s

(* the messages Mob.at_hit sends while it subtracts *)
hit_message(s, magic) ==
    IF ~magic
    THEN Send(s, "msg", "attacker", "weapon_ineffective_msg", "")
    ELSE Send(s, "msg_contents", s.location, "hit_msg", "")

(* at_hit that subtracts the damage whether the mob is immortal or not *)
at_hit_ignores_immortal(s, magic, damage) ==
    IF s.health = NoHealth
    THEN Send(s, "msg", "attacker", "weapon_ineffective_msg", "")
    ELSE IF magic /\ s.location = "None"
    THEN [s EXCEPT !.raised = TRUE]
    ELSE hit_outcome([hit_message(s, magic) EXCEPT !.health =
                            IF ~magic THEN @ - damage
                                      ELSE @ - damage * damage_resistance])

(* at_hit that does not divide by db.damage_resistance *)
at_hit_no_resistance(s, magic, damage) ==
    IF s.health = NoHealth
    THEN Send(s, "msg", "attacker", "weapon_ineffective_msg", "")
    ELSE IF ~s.is_immortal /\ magic /\ s.location = "None"
    THEN [s EXCEPT !.raised = TRUE]
    ELSE hit_outcome(IF ~s.is_immortal
                     THEN [hit_message(s, magic) EXCEPT !.health =
                              @ - damage * damage_resistance]
                     ELSE s)

(* at_hit that leaves the mob in the state it is in when it survives *)
at_hit_no_retaliation(s, magic, damage) ==
    IF s.health = NoHealth
    THEN Send(s, "msg", "attacker", "weapon_ineffective_msg", "")
    ELSE IF ~s.is_immortal /\ magic /\ s.location = "None"
    THEN [s EXCEPT !.raised = TRUE]
    ELSE LET s1 == IF ~s.is_immortal
                   THEN [hit_message(s, magic) EXCEPT !.health =
                            IF ~magic THEN @ - damage
                                      ELSE @ - damage * damage_resistance]
                   ELSE s
         IN  IF s1.health <= 0
             THEN set_dead(Send(s1, "msg", "attacker", "death_msg", ""))
             ELSE s1

(* at_hit that tells the attacker of the death only after set_dead, and *)
(* not at all                                                           *)
at_hit_silent_death(s, magic, damage) ==
    IF s.health = NoHealth
    THEN Send(s, "msg", "attacker", "weapon_ineffective_msg", "")
    ELSE IF ~s.is_immortal /\ magic /\ s.location = "None"
    THEN [s EXCEPT !.raised = TRUE]
    ELSE LET s1 == IF ~s.is_immortal
                   THEN [hit_message(s, magic) EXCEPT !.health =
                            IF ~magic THEN @ - damage
                                      ELSE @ - damage * damage_resistance]
                   ELSE s
         IN  IF s1.health <= 0 THEN set_dead(s1)
             ELSE IF s1.aggressive /\ ~s1.is_attacking
                  THEN start_attacking(s1)
                  ELSE s1

(* Mob.at_hit; damage is the raw damage, db.health is in 1/damage_resistance *)
(* units.  location.msg_contents raises on a mob that has no location.      *)
at_hit(s, magic, damage) ==
    IF s.health = NoHealth
    THEN Send(s, "msg", "attacker", "weapon_ineffective_msg", "")
    ELSE IF ~s.is_immortal /\ magic /\ s.location = "None"
    THEN [s EXCEPT !.raised = TRUE]
    ELSE hit_outcome(IF ~s.is_immortal
                     THEN [hit_message(s, magic) EXCEPT !.health =
                              IF ~magic THEN @ - damage
                                        ELSE @ - damage * damage_resistance]
                     ELSE s)

(* at_new_arrival that starts the attack itself, whatever db.aggressive is *)
at_new_arrival_always_attacks(s) ==
    IF ~s.is_attacking
    THEN [set_ticker(s, aggressive_pace, "do_attack", FALSE)
             EXCEPT !.is_patrolling = FALSE,
                    !.is_hunting = FALSE,
                    !.is_attacking = TRUE]
    ELSE s

(* at_new_arrival that calls start_attacking without looking at *)
(* db.aggressive                                                *)
at_new_arrival_unguarded(s) ==
    IF ~s.is_attacking THEN start_attacking(s) ELSE s

(* at_new_arrival that starts the attack again on a mob that attacks *)
at_new_arrival_restarts(s) ==
    IF s.aggressive THEN start_attacking(s) ELSE s

(* at_new_arrival that leaves the attack to the next tick *)
at_new_arrival_waits(s) == s

(* Mob.at_new_arrival *)
at_new_arrival(s) ==
    IF s.aggressive /\ ~s.is_attacking THEN start_attacking(s) ELSE s

----------------------------------------------------------------------------
(* Behaviour loops.  A tick of a mob without location raises at            *)
(* self.location.exits / location.contents_get before any assignment.      *)

(* exits = [exi for exi in self.location.exits if exi.access(self, "traverse")] *)
TraversableExits(location) ==
    SelectSeq(Exits(location), LAMBDA e : e.traverse)

(* do_patrol that draws among all the exits of the location *)
do_patrol_any_exit(s, loc, pick) ==
    IF s.location = "None" THEN [s EXCEPT !.raised = TRUE]
    ELSE IF s.aggressive /\ find_target(Located(s, loc), s.location) # "None"
    THEN start_attacking(s)
    ELSE LET exits == Exits(s.location)
         IN  IF exits # << >>
             THEN [s EXCEPT !.location = exits[pick].destination]
             ELSE [s EXCEPT !.location = home]

(* Mob.do_patrol; pick is the index random.choice draws *)
do_patrol(s, loc, pick) ==
    IF s.location = "None" THEN [s EXCEPT !.raised = TRUE]
    ELSE IF s.aggressive /\ find_target(Located(s, loc), s.location) # "None"
    THEN start_attacking(s)
    ELSE LET exits == TraversableExits(s.location)
         IN  IF exits # << >>
             THEN [s EXCEPT !.location = exits[pick].destination]
             ELSE [s EXCEPT !.location = home]

(* a loop that moves through the last exit that leads to a target *)
hunt_scan_last(exits, where, i) ==
    LET led == {j \in i..Len(exits) :
                   find_target(where, exits[j].destination) # "None"}
    IN  IF led = {} THEN "None"
        ELSE exits[CHOOSE j \in led : \A k \in led : k <= j].destination

(* the for loop of Mob.do_hunt from exit i on: the destination moved into, *)
(* or "None" when the loop ends without a return                           *)
RECURSIVE hunt_scan(_, _, _)
hunt_scan(exits, where, i) ==
    IF i > Len(exits) THEN "None"
    ELSE IF find_target(where, exits[i].destination) # "None"
    THEN exits[i].destination
    ELSE hunt_scan(exits, where, i + 1)

(* Mob.do_hunt *)
do_hunt(s, loc) ==
    IF s.location = "None" THEN [s EXCEPT !.raised = TRUE]
    ELSE IF s.aggressive /\ find_target(Located(s, loc), s.location) # "None"
    THEN start_attacking(s)
    ELSE LET exits == TraversableExits(s.location)
             found == hunt_scan(exits, Located(s, loc), 1)
         IN  IF exits # << >>
             THEN IF found # "None"
                  THEN [s EXCEPT !.location = found]
                  ELSE start_patrolling(s)
             ELSE [s EXCEPT !.location = home]

(* do_attack that keeps attacking when the target is gone *)
do_attack_no_reacquire(s, loc, defeated, resolved) ==
    IF s.location = "None" THEN [s EXCEPT !.raised = TRUE]
    ELSE IF find_target(Located(s, loc), s.location) = "None" THEN s
    ELSE Send(s, "execute_cmd", "self", "attack",
              find_target(Located(s, loc), s.location))

(* Mob.do_attack, the mob's side: without target it starts hunting, with   *)
(* one it executes the attack command, which changes nothing of the mob.   *)
(* defeated says target.db.health <= 0 after the attack command, resolved  *)
(* that search_object found db.send_defeated_to.                           *)
do_attack(s, loc, defeated, resolved) ==
    LET target == find_target(Located(s, loc), s.location)
        s1 == Send(s, "execute_cmd", "self", "attack", target)
        s2 == Send(Send(s1, "msg", target, "defeat_msg", ""),
                   "msg_contents", s.location, "defeat_msg_room", target)
    IN  IF s.location = "None" THEN [s EXCEPT !.raised = TRUE]
        ELSE IF target = "None" THEN start_hunting(s)
        ELSE IF ~defeated THEN s1
        ELSE IF resolved THEN Send(s2, "move_to", target, recovery_bay, "")
        ELSE Send(s2, "log_err", "logger", "send_defeated_to not found", "")

(* defeat handling that sends the target home when send_defeated_to is *)
(* not found                                                           *)
defeat_target_unresolved_home(s, loc, defeated, resolved) ==
    LET target == IF s.location = "None" THEN "None"
                  ELSE find_target(Located(s, loc), s.location)
    IN  IF target # "None" /\ defeated
        THEN [loc EXCEPT ![target] = IF resolved THEN recovery_bay ELSE home]
        ELSE loc

(* Mob.do_attack, the target's side: target.move_to(send_defeated_to[0]) *)
defeat_target(s, loc, defeated, resolved) ==
    LET target == IF s.location = "None" THEN "None"
                  ELSE find_target(Located(s, loc), s.location)
    IN  IF target # "None" /\ defeated /\ resolved
        THEN [loc EXCEPT ![target] = recovery_bay]
        ELSE loc

----------------------------------------------------------------------------
(* The intro menu of intro_menu.py *)

(* bound on the length of the cmdset stack of the caller *)
MaxStack == 3

(* DemoCommandSetHelp, DemoCommandSetComms, DemoCommandSetRoom *)
DemoCmdSets == {"Help", "Comms", "Room"}

(* the rooms of the game the caller walks in when no menu is open *)
WorldRooms == {"limbo", "plaza"}

(* caller.db.neoeden_demo_room_data when the attribute is not set *)
NoRoomData == [stored |-> FALSE, prev_loc |-> "None", id |-> 0]

(* a character that never ran the menu.  objects is the set of the demo   *)
(* object sets (pod, sign, street, pad, door_out, door_in) that exist,    *)
(* pad the location of the datapad; last, from and origin record the      *)
(* callback that ran last, the location it started in, and the location   *)
(* the caller had when this menu first created a demo room                *)
NewCaller(location) ==
    [location |-> location,
     cmdset_stack |-> << >>,
     demo_room_data |-> NoRoomData,
     objects |-> {},
     pad |-> "None",
     menu |-> FALSE,
     last |-> "None",
     from |-> location,
     origin |-> "unset"]

(* caller.cmdset.add: the set goes on top of the stack *)
cmdset_add(s, cmdset) ==
    [s EXCEPT !.cmdset_stack = Append(@, cmdset)]

(* caller.cmdset.remove: every instance of the set leaves the stack *)
cmdset_remove(s, cmdset) ==
    [s EXCEPT !.cmdset_stack = SelectSeq(@, LAMBDA c : c # cmdset)]

(* create_object gives objects that did not exist *)
NewObjects(s) ==
    CHOOSE i \in 1..(Cardinality(s.objects) + 1) :
        /\ i \notin s.objects
        /\ \A j \in 1..(Cardinality(s.objects) + 1) :
              j \notin s.objects => i <= j

(* _maintain_demo_room, the creation *)
create_demo_room(s) ==
    LET id == NewObjects(s)
    IN  [s EXCEPT !.objects = @ \cup {id},
                  !.pad = "street",
                  !.demo_room_data = [stored |-> TRUE,
                                      prev_loc |-> s.location,
                                      id |-> id],
                  !.location = "pod",
                  !.origin = IF @ = "unset" THEN s.location ELSE @]

(* _maintain_demo_room that creates a demo room whether one exists or not *)
maintain_demo_room_always_creates(s, delete) ==
    IF delete
    THEN IF s.demo_room_data.stored
         THEN [s EXCEPT !.location = s.demo_room_data.prev_loc,
                        !.objects = @ \ {s.demo_room_data.id},
                        !.pad = "None",
                        !.demo_room_data = NoRoomData]
         ELSE s
    ELSE create_demo_room(s)

(* _maintain_demo_room *)
maintain_demo_room(s, delete) ==
    IF delete
    THEN IF s.demo_room_data.stored
         THEN [s EXCEPT !.location = s.demo_room_data.prev_loc,
                        !.objects = @ \ {s.demo_room_data.id},
                        !.pad = "None",
                        !.demo_room_data = NoRoomData]
         ELSE s
    ELSE IF ~s.demo_room_data.stored
         THEN create_demo_room(s)
         ELSE s

(* goto_command_demo_help *)
goto_command_demo_help(s) ==
    cmdset_add(
        cmdset_remove(
            cmdset_remove(maintain_demo_room(s, TRUE), "Room"),
            "Comms"),
        "Help")

(* goto_command_demo_comms *)
goto_command_demo_comms(s) ==
    cmdset_add(cmdset_remove(cmdset_remove(s, "Help"), "Room"), "Comms")

(* goto_command_demo_room *)
goto_command_demo_room(s) ==
    cmdset_add(
        cmdset_remove(
            cmdset_remove(maintain_demo_room(s, FALSE), "Help"),
            "Comms"),
        "Room")

(* goto_cleanup_cmdsets *)
goto_cleanup_cmdsets(s) ==
    cmdset_remove(cmdset_remove(cmdset_remove(s, "Help"), "Comms"), "Room")

(* NeoEdenIntroMenu.close_menu; EvMenu.close_menu ends the menu *)
close_menu(s) ==
    LET s1 == cmdset_remove(
                  cmdset_remove(cmdset_remove(s, "Help"), "Room"),
                  "Comms")
    IN  [maintain_demo_room(s1, TRUE) EXCEPT !.menu = FALSE]

----------------------------------------------------------------------------
(* The state after create_object and the builder's configuration of the    *)
(* behaviour flags: Mob.at_object_creation.  The mob is created without    *)
(* location (tests.py) or in a room that need not be its home; its ndb     *)
(* flags are not set yet.                                                  *)

InitMob ==
    /\ \E p \in BOOLEAN, a \in BOOLEAN, h \in BOOLEAN, i \in BOOLEAN,
          l \in {"None", "r2"} :
          mob = [patrolling |-> p, aggressive |-> a, hunting |-> h,
                 immortal |-> i,
                 is_dead |-> TRUE,
                 health |-> FullHealthUnits,
                 last_ticker_interval |-> NoneInterval,
                 last_hook_key |-> "None",
                 is_patrolling |-> FALSE,
                 is_attacking |-> FALSE,
                 is_hunting |-> FALSE,
                 is_immortal |-> FALSE,
                 location |-> l,
                 tickers |-> {},
                 calls |-> << >>,
                 out |-> << >>,
                 raised |-> FALSE]
    /\ charLoc = [c \in CharSet |->
                    CASE c = "p1" -> "r1"
                      [] c = "p2" -> "r3"
                      [] OTHER -> "r2"]
    /\ op = [hook |-> "at_object_creation", by |-> "call",
             magic |-> FALSE, damage |-> 0, from |-> "None"]
    /\ hits = 0

(* the mob is created; the character has not started the intro menu *)
Init ==
    /\ InitMob
    /\ caller = NewCaller("limbo")

(* what of the mob outlasts a handler: everything but the record of the   *)
(* handler's own calls and messages                                       *)
Lasting(s) == [s EXCEPT !.calls = << >>, !.out = << >>]

(* a handler starts with no TICKER_HANDLER call made, nothing sent and   *)
(* nothing raised                                                       *)
Begin(s) == [s EXCEPT !.calls = << >>, !.out = << >>, !.raised = FALSE]

(* op after a handler called by a command or by the room, and after one *)
(* called by TICKER_HANDLER                                             *)
Called(hook) ==
    [hook |-> hook, by |-> "call", magic |-> FALSE, damage |-> 0,
     from |-> mob.location]
Ticked(hook) == [Called(hook) EXCEPT !.by = "ticker"]

(* the ticker of this hook is subscribed, so TICKER_HANDLER calls it *)
Subscribed(hook) == \E t \in mob.tickers : t[2] = hook

----------------------------------------------------------------------------
(* Actions *)

(* CmdMobOnOff.func, mobon *)
MobOn ==
    /\ mob' = set_alive(Begin(mob))
    /\ op' = Called("set_alive")
    /\ UNCHANGED <<charLoc, hits>>
    /\ UNCHANGED caller

(* CmdMobOnOff.func, moboff *)
MobOff ==
    /\ mob' = set_dead(Begin(mob))
    /\ op' = Called("set_dead")
    /\ UNCHANGED <<charLoc, hits>>
    /\ UNCHANGED caller

(* the ticker installed by set_dead fires *)
TickSetAlive ==
    /\ Subscribed("set_alive")
    /\ mob' = set_alive(Begin(mob))
    /\ op' = Ticked("set_alive")
    /\ UNCHANGED <<charLoc, hits>>
    /\ UNCHANGED caller

TickPatrol ==
    /\ Subscribed("do_patrol")
    /\ \E pick \in 1..Len(Exits(home)) :
          /\ pick <= IF mob.location = "None" THEN 1
                     ELSE IF TraversableExits(mob.location) = << >> THEN 1
                     ELSE Len(TraversableExits(mob.location))
          /\ mob' = do_patrol(Begin(mob), charLoc, pick)
    /\ op' = Ticked("do_patrol")
    /\ UNCHANGED <<charLoc, hits>>
    /\ UNCHANGED caller

TickHunt ==
    /\ Subscribed("do_hunt")
    /\ mob' = do_hunt(Begin(mob), charLoc)
    /\ op' = Ticked("do_hunt")
    /\ UNCHANGED <<charLoc, hits>>
    /\ UNCHANGED caller

TickAttack ==
    /\ Subscribed("do_attack")
    /\ \E defeated \in BOOLEAN, resolved \in BOOLEAN :
          /\ mob' = do_attack(Begin(mob), charLoc, defeated, resolved)
          /\ charLoc' = defeat_target(mob, charLoc, defeated, resolved)
    /\ op' = Ticked("do_attack")
    /\ UNCHANGED hits
    /\ UNCHANGED caller

(* a weapon's attack command calls at_hit *)
AtHit ==
    /\ hits < MaxHits
    /\ \E magic \in BOOLEAN, damage \in RawDamages :
          /\ mob' = at_hit(Begin(mob), magic, damage)
          /\ op' = [Called("at_hit") EXCEPT !.magic = magic,
                                            !.damage = damage]
    /\ hits' = hits + 1
    /\ UNCHANGED charLoc
    /\ UNCHANGED caller

(* the room announces an arrival *)
AtNewArrival ==
    /\ mob' = at_new_arrival(Begin(mob))
    /\ op' = Called("at_new_arrival")
    /\ UNCHANGED <<charLoc, hits>>
    /\ UNCHANGED caller

(* the object is loaded into memory again (server reload) *)
AtInit ==
    /\ mob' = at_init(Begin(mob))
    /\ op' = Called("at_init")
    /\ UNCHANGED <<charLoc, hits>>
    /\ UNCHANGED caller

(* a character walks *)
MoveChar ==
    /\ \E c \in CharSet : \E r \in Roam(c) :
          /\ charLoc[c] # r
          /\ charLoc' = [charLoc EXCEPT ![c] = r]
    /\ op' = Called("move")
    /\ mob' = Begin(mob)
    /\ UNCHANGED hits
    /\ UNCHANGED caller

Next ==
    \/ MobOn
    \/ MobOff
    \/ TickSetAlive
    \/ TickPatrol
    \/ TickHunt
    \/ TickAttack
    \/ AtHit
    \/ AtNewArrival
    \/ AtInit
    \/ MoveChar

Spec == Init /\ [][Next]_vars

----------------------------------------------------------------------------
(* _set_ticker called directly in its cancelling forms (stop set, or an   *)
(* interval of 0 or None), as tests.py does with                           *)
(* _set_ticker(0, "foo", stop=True)                                        *)

TickerIntervals == {NoneInterval, 0, patrolling_pace}
TickerKeys == {"foo", "do_patrol"}

SetTickerCall ==
    /\ \E interval \in TickerIntervals, key \in TickerKeys, stop \in BOOLEAN :
          /\ stop \/ ~IntervalTruthy(interval)
          /\ mob' = set_ticker(Begin(mob), interval, key, stop)
    /\ op' = Called("_set_ticker")
    /\ UNCHANGED <<charLoc, hits>>
    /\ UNCHANGED caller

(* the handlers that install timers, and the direct calls *)
NextT ==
    \/ MobOn
    \/ MobOff
    \/ TickSetAlive
    \/ TickPatrol
    \/ TickHunt
    \/ TickAttack
    \/ AtNewArrival
    \/ MoveChar
    \/ SetTickerCall

SpecT == Init /\ [][NextT]_vars

----------------------------------------------------------------------------
(* The intro menu: the callbacks of the menu nodes, the commands of the    *)
(* demo room cmdset, and the end of the menu                               *)

(* a callback or command records its name and the location it started in *)
Ran(s, name) == [s EXCEPT !.last = name, !.from = caller.location]

HoldsCmdSet(s, cmdset) ==
    \E i \in 1..Len(s.cmdset_stack) : s.cmdset_stack[i] = cmdset

(* init_menu *)
OpenMenu ==
    /\ ~caller.menu
    /\ caller' = Ran([caller EXCEPT !.menu = TRUE, !.origin = "unset"],
                     "init_menu")
    /\ UNCHANGED <<mob, charLoc, op, hits>>

GotoHelp ==
    /\ caller.menu /\ Len(caller.cmdset_stack) < MaxStack
    /\ caller' = Ran(goto_command_demo_help(caller),
                     "goto_command_demo_help")
    /\ UNCHANGED <<mob, charLoc, op, hits>>

GotoComms ==
    /\ caller.menu /\ Len(caller.cmdset_stack) < MaxStack
    /\ caller' = Ran(goto_command_demo_comms(caller),
                     "goto_command_demo_comms")
    /\ UNCHANGED <<mob, charLoc, op, hits>>

GotoRoom ==
    /\ caller.menu /\ Len(caller.cmdset_stack) < MaxStack
    /\ caller' = Ran(goto_command_demo_room(caller),
                     "goto_command_demo_room")
    /\ UNCHANGED <<mob, charLoc, op, hits>>

GotoCleanup ==
    /\ caller.menu
    /\ caller' = Ran(goto_cleanup_cmdsets(caller), "goto_cleanup_cmdsets")
    /\ UNCHANGED <<mob, charLoc, op, hits>>

CloseMenu ==
    /\ caller.menu
    /\ caller' = Ran(close_menu(caller), "close_menu")
    /\ UNCHANGED <<mob, charLoc, op, hits>>

(* door_out and door_in, which DemoCommandSetRoom (no_exits = False) *)
(* lets the caller use                                               *)
TraverseDoor ==
    /\ HoldsCmdSet(caller, "Room")
    /\ caller.location \in {"pod", "street"}
    /\ caller' = Ran([caller EXCEPT !.location =
                         IF @ = "pod" THEN "street" ELSE "pod"], "door")
    /\ UNCHANGED <<mob, charLoc, op, hits>>

(* CmdGet and CmdDrop of DemoCommandSetRoom on the datapad *)
GetPad ==
    /\ HoldsCmdSet(caller, "Room")
    /\ caller.pad = caller.location
    /\ caller' = Ran([caller EXCEPT !.pad = "caller"], "get")
    /\ UNCHANGED <<mob, charLoc, op, hits>>

DropPad ==
    /\ HoldsCmdSet(caller, "Room")
    /\ caller.pad = "caller"
    /\ caller' = Ran([caller EXCEPT !.pad = caller.location], "drop")
    /\ UNCHANGED <<mob, charLoc, op, hits>>

(* with no menu open the caller walks the game *)
WalkWorld ==
    /\ ~caller.menu
    /\ \E r \in WorldRooms :
          /\ r # caller.location
          /\ caller' = Ran([caller EXCEPT !.location = r], "walk")
    /\ UNCHANGED <<mob, charLoc, op, hits>>

(* a mob that nothing ever starts, and a character somewhere in the game *)
InitIntro ==
    /\ InitMob
    /\ ~mob.patrolling /\ ~mob.aggressive /\ ~mob.hunting /\ ~mob.immortal
    /\ mob.location = "None"
    /\ \E r \in WorldRooms : caller = NewCaller(r)

NextIntro ==
    \/ OpenMenu
    \/ GotoHelp
    \/ GotoComms
    \/ GotoRoom
    \/ GotoCleanup
    \/ CloseMenu
    \/ TraverseDoor
    \/ GetPad
    \/ DropPad
    \/ WalkWorld

SpecIntro == InitIntro /\ [][NextIntro]_vars

----------------------------------------------------------------------------
(* Vocabulary of the properties *)

(* the state the mode flags stand for; Dormant is no mode flag set *)
State(s) ==
    IF s.is_attacking THEN "Attacking"
    ELSE IF s.is_hunting THEN "Hunting"
    ELSE IF s.is_patrolling THEN "Patrolling"
    ELSE "Dormant"

(* the subscription each start_* installs, and the one set_dead installs *)
StateTimer(st) ==
    CASE st = "Patrolling" -> <<patrolling_pace, "do_patrol">>
      [] st = "Hunting" -> <<hunting_pace, "do_hunt">>
      [] st = "Attacking" -> <<aggressive_pace, "do_attack">>
ReactivationTimer == <<death_pace, "set_alive">>

(* the handler that ran last called TICKER_HANDLER.add / .remove *)
Added(s) == {<<s.calls[i][2], s.calls[i][3]>> :
                i \in {j \in 1..Len(s.calls) : s.calls[j][1] = "add"}}
Removed(s) == {<<s.calls[i][2], s.calls[i][3]>> :
                i \in {j \in 1..Len(s.calls) : s.calls[j][1] = "remove"}}

(* what set_dead leaves behind *)
Deactivated(s) ==
    /\ s.is_dead
    /\ State(s) = "Dormant"
    /\ s.location = "None"
    /\ s.tickers = {ReactivationTimer}

----------------------------------------------------------------------------
(* C1: after any sequence of handlers the scheduler holds at most one      *)
(* timer of the mob, and whenever a handler installs a timer, the timer    *)
(* installed before it has been removed: the installed one is the only one *)
C1_AtMostOneTimer ==
    /\ Cardinality(mob.tickers) <= 1
    /\ \A t \in Added(mob) : mob.tickers = {t}

C1_Witness ==
    /\ Removed(mob) = {StateTimer("Patrolling")}
    /\ Added(mob) = {StateTimer("Attacking")}
    /\ mob.tickers = {StateTimer("Attacking")}

C3_Original ==
    op.hook = "set_dead" =>
        /\ State(mob) = "Dormant"
        /\ mob.health = NoHealth
        /\ mob.location = "None"

(* C3, amended: set_dead, from any state, leaves the mob dead and Dormant  *)
(* with its location cleared; its health is left as it was                 *)
C3_SetDead ==
    [][op'.hook = "set_dead" =>
          /\ mob'.is_dead
          /\ State(mob') = "Dormant"
          /\ mob'.location = "None"
          /\ mob'.health = mob.health]_vars

C3_Witness ==
    /\ op.hook = "set_dead"
    /\ Removed(mob) = {StateTimer("Attacking")}
    /\ mob.is_dead /\ State(mob) = "Dormant" /\ mob.location = "None"
    /\ mob.health > 0 /\ mob.health < FullHealthUnits

(* C4: when the reactivation timer fires set_alive, health is full, the    *)
(* location is home, and the mob is Patrolling if db.patrolling and        *)
(* Dormant otherwise                                                       *)
C4_Reactivation ==
    (op.hook = "set_alive" /\ op.by = "ticker") =>
        /\ ~mob.is_dead
        /\ mob.health = FullHealthUnits
        /\ mob.location = home
        /\ State(mob) = IF mob.patrolling THEN "Patrolling" ELSE "Dormant"

C4_Witness ==
    /\ op.hook = "set_alive" /\ op.by = "ticker"
    /\ mob.patrolling
    /\ State(mob) = "Patrolling"
    /\ mob.location = home
    /\ Removed(mob) = {ReactivationTimer}

C6_Original ==
    [][(op'.hook = "set_dead" /\ Deactivated(mob)) =>
          /\ Lasting(mob') = Lasting(mob)
          /\ mob'.calls = << >>]_vars

(* C6, amended: set_dead on a mob that is already deactivated leaves its   *)
(* flags, health, location and registered timer as they were, but it does  *)
(* remove the pending reactivation timer and install it again              *)
C6_SetDeadTwice ==
    [][(op'.hook = "set_dead" /\ Deactivated(mob)) =>
          /\ Lasting(mob') = Lasting(mob)
          /\ mob'.calls = << <<"remove", death_pace, "set_alive">>,
                             <<"add", death_pace, "set_alive">> >>]_vars

C6_Witness ==
    /\ op.hook = "set_dead"
    /\ Deactivated(mob)
    /\ Removed(mob) = {ReactivationTimer}
    /\ Added(mob) = {ReactivationTimer}

(* C7: a new mob is dead and Dormant with no timer; set_alive leaves       *)
(* is_dead false, set_dead (called by moboff or by at_hit) leaves it true, *)
(* and no other handler changes it                                         *)
C7_IsDeadFollowsLastCall ==
    [][/\ op.hook = "at_object_creation" =>
             (mob.is_dead /\ State(mob) = "Dormant" /\ mob.tickers = {})
       /\ op'.hook = "set_alive" => ~mob'.is_dead
       /\ (op'.hook = "set_dead"
             \/ (op'.hook = "at_hit" /\ ReactivationTimer \in Added(mob')))
          => mob'.is_dead
       /\ (op'.hook \notin {"set_alive", "set_dead"}
             /\ ~(op'.hook = "at_hit" /\ ReactivationTimer \in Added(mob')))
          => mob'.is_dead = mob.is_dead]_vars

C7_Witness ==
    /\ op.hook = "set_dead"
    /\ mob.is_dead
    /\ Removed(mob) = {StateTimer("Patrolling")}

(* C8: _set_ticker called with stop set, or with an interval of 0 or None, *)
(* only cancels: the timer registered before is removed, none is added and *)
(* afterwards no timer of the mob is registered, whatever hook name was    *)
(* passed and whatever state the mob was in                                *)
C8_StopOnlyCancels ==
    [][op'.hook = "_set_ticker" =>
          /\ mob'.tickers = {}
          /\ Added(mob') = {}
          /\ mob.tickers \subseteq Removed(mob')]_vars

C8_Witness ==
    /\ op.hook = "_set_ticker"
    /\ mob.is_dead
    /\ Removed(mob) = {ReactivationTimer}
    /\ mob.tickers = {}
    /\ mob.last_hook_key = "foo"

C10_Damage ==
    [][op'.hook = "at_hit" =>
          /\ (~mob.is_immortal /\ ~op'.magic) =>
                mob'.health = mob.health - op'.damage
          /\ (~mob.is_immortal /\ op'.magic /\ mob.location # "None") =>
                mob'.health = mob.health - op'.damage * damage_resistance
          /\ (~op'.magic /\ mob.health > op'.damage) =>
                /\ mob'.health > 0
                /\ mob'.is_dead = mob.is_dead
                /\ ReactivationTimer \notin Added(mob')]_vars

C10_Witness ==
    /\ op.hook = "at_hit" /\ ~op.magic /\ op.damage = 30
    /\ mob.health = FullHealthUnits - 30
    /\ ~mob.is_dead
    /\ State(mob) = "Attacking"

(* the mode flags of the mob *)
Flags(s) == <<s.is_patrolling, s.is_hunting, s.is_attacking>>

(* the handler that ran last sent this *)
Sent(s, call, to, what, exclude) ==
    \E i \in 1..Len(s.out) : s.out[i] = <<call, to, what, exclude>>

(* C11: an at_hit that returns with the health still above zero leaves an  *)
(* aggressive mob Attacking: one that was attacking stays so and no timer  *)
(* is touched, one that was not gets the do_attack timer at aggressive     *)
(* pace in place of the timer it had; the state, timer and location of a   *)
(* mob that is not aggressive are left as they were                        *)
C11_SurvivedHit ==
    [][(op'.hook = "at_hit" /\ ~mob'.raised /\ mob'.health > 0) =>
          /\ mob.aggressive =>
                /\ State(mob') = "Attacking"
                /\ mob.is_attacking =>
                      /\ mob'.calls = << >>
                      /\ mob'.tickers = mob.tickers
                /\ ~mob.is_attacking =>
                      /\ mob'.tickers = {StateTimer("Attacking")}
                      /\ Added(mob') = {StateTimer("Attacking")}
                      /\ mob.tickers \subseteq Removed(mob')
          /\ ~mob.aggressive =>
                /\ Flags(mob') = Flags(mob)
                /\ State(mob') # "Attacking"
                /\ mob'.calls = << >>
                /\ mob'.tickers = mob.tickers
                /\ mob'.is_dead = mob.is_dead
                /\ mob'.location = mob.location]_vars

C11_Witness ==
    /\ op.hook = "at_hit" /\ op.magic /\ ~mob.raised
    /\ mob.aggressive /\ ~mob.is_immortal
    /\ 0 < mob.health /\ mob.health < FullHealthUnits
    /\ Removed(mob) = {StateTimer("Patrolling")}
    /\ mob.tickers = {StateTimer("Attacking")}
    /\ State(mob) = "Attacking"

(* C12 as claimed: a magic hit of at least the health of a mob that is not *)
(* immortal brings the health to zero or below, makes the mob Dormant,     *)
(* tells the attacker of the death and broadcasts the defeat to the        *)
(* location, the defeated one excluded                                     *)
C12_Original ==
    [][(op'.hook = "at_hit" /\ op'.magic /\ ~mob.is_immortal
        /\ mob.location # "None"
        /\ op'.damage * damage_resistance >= mob.health) =>
          /\ mob'.health <= 0
          /\ State(mob') = "Dormant" /\ mob'.is_dead
          /\ Sent(mob', "msg", "attacker", "death_msg", "")
          /\ \E i \in 1..Len(mob'.out) :
                /\ mob'.out[i][1] = "msg_contents"
                /\ mob'.out[i][2] = mob.location
                /\ mob'.out[i][4] # ""]_vars

(* C12, amended: such a hit on a mob that stands in a location brings the  *)
(* health to zero or below, deactivates the mob and tells the attacker of  *)
(* the death; the location gets the hit message alone, sent to all its     *)
(* contents before the damage is subtracted, and no defeat broadcast       *)
C12_LethalHit ==
    [][(op'.hook = "at_hit" /\ op'.magic /\ ~mob.is_immortal
        /\ mob.location # "None"
        /\ op'.damage * damage_resistance >= mob.health) =>
          /\ mob'.health <= 0
          /\ Deactivated(mob')
          /\ mob'.out = << <<"msg_contents", mob.location, "hit_msg", "">>,
                           <<"msg", "attacker", "death_msg", "">> >>]_vars

C12_Witness ==
    /\ op.hook = "at_hit" /\ op.magic /\ op.damage = 30
    /\ op.from # "None"
    /\ Removed(mob) = {StateTimer("Attacking")}
    /\ mob.health = FullHealthUnits - 30 * damage_resistance
    /\ Deactivated(mob)
    /\ Sent(mob, "msg", "attacker", "death_msg", "")

(* the indexes of the exits of a room the mob may traverse *)
Open(room) == {i \in 1..Len(Exits(room)) : Exits(room)[i].traverse}

(* a room holds an object that has an account and is no superuser *)
HasTarget(room) ==
    \E c \in CharSet :
        charLoc[c] = room /\ has_account(c) /\ ~is_superuser(c)

(* C13: a do_patrol tick that does not start the attack moves the mob to   *)
(* the destination of one of the exits it may traverse when there is one,  *)
(* never through an exit it may not traverse, and to home when there is    *)
(* none                                                                    *)
C13_PatrolMove ==
    [][(op'.hook = "do_patrol" /\ op'.by = "ticker" /\ ~mob'.raised
        /\ Added(mob') = {}) =>
          IF Open(mob.location) # {}
          THEN \E i \in Open(mob.location) :
                  mob'.location = Exits(mob.location)[i].destination
          ELSE mob'.location = home]_vars

C13_Witness ==
    /\ op.hook = "do_patrol" /\ op.by = "ticker" /\ ~mob.raised
    /\ op.from = "r3" /\ Open("r3") = {} /\ Exits("r3") # << >>
    /\ mob.location = home
    /\ State(mob) = "Patrolling"

(* C14 as claimed: a do_hunt tick with no target where the mob stands      *)
(* moves it through the first traversable exit, in order, whose            *)
(* destination holds a target; with traversable exits but no target behind *)
(* any it makes the mob Patrolling where it stands; with no traversable    *)
(* exit it moves the mob home and the mob stays Hunting                    *)
C14_Original ==
    [][(op'.hook = "do_hunt" /\ op'.by = "ticker"
        /\ mob.location # "None" /\ ~HasTarget(mob.location)) =>
          LET exits == Exits(mob.location)
              led == {i \in Open(mob.location) :
                         HasTarget(exits[i].destination)}
          IN  IF Open(mob.location) = {}
              THEN /\ mob'.location = home
                   /\ Flags(mob') = Flags(mob)
                   /\ mob'.tickers = mob.tickers
              ELSE IF led # {}
              THEN /\ \E i \in led :
                        /\ \A j \in led : i <= j
                        /\ mob'.location = exits[i].destination
                   /\ Flags(mob') = Flags(mob)
                   /\ mob'.tickers = mob.tickers
              ELSE /\ mob'.location = mob.location
                   /\ State(mob') = "Patrolling"
                   /\ mob'.tickers = {StateTimer("Patrolling")}]_vars

(* C14, amended: as claimed, but the fall back is to Patrolling only for a *)
(* mob that patrols (db.patrolling); one that does not has its timer       *)
(* stopped and none installed                                              *)
C14_HuntTick ==
    [][(op'.hook = "do_hunt" /\ op'.by = "ticker"
        /\ mob.location # "None" /\ ~HasTarget(mob.location)) =>
          LET exits == Exits(mob.location)
              led == {i \in Open(mob.location) :
                         HasTarget(exits[i].destination)}
          IN  IF Open(mob.location) = {}
              THEN /\ mob'.location = home
                   /\ Flags(mob') = Flags(mob)
                   /\ mob'.tickers = mob.tickers
              ELSE IF led # {}
              THEN /\ \E i \in led :
                        /\ \A j \in led : i <= j
                        /\ mob'.location = exits[i].destination
                   /\ Flags(mob') = Flags(mob)
                   /\ mob'.tickers = mob.tickers
              ELSE /\ mob'.location = mob.location
                   /\ mob.patrolling =>
                         /\ State(mob') = "Patrolling"
                         /\ mob'.tickers = {StateTimer("Patrolling")}
                   /\ ~mob.patrolling =>
                         /\ State(mob') # "Patrolling"
                         /\ mob'.tickers = {}
                         /\ Added(mob') = {}]_vars

C14_Witness ==
    /\ op.hook = "do_hunt" /\ op.by = "ticker"
    /\ op.from = "r1" /\ mob.location = "r2"
    /\ charLoc["p1"] = "r2" /\ charLoc["p2"] = "r3"
    /\ State(mob) = "Hunting"

(* C15: a mob that is not aggressive is never Attacking, never has a       *)
(* do_attack timer and never executes the attack command, whatever         *)
(* commands, ticks, hits and arrivals come                                 *)
C15_NeverAttacks ==
    ~mob.aggressive =>
        /\ State(mob) # "Attacking" /\ ~mob.is_attacking
        /\ \A t \in mob.tickers : t[2] # "do_attack"
        /\ \A i \in 1..Len(mob.calls) :
              ~(mob.calls[i][1] = "add" /\ mob.calls[i][3] = "do_attack")
        /\ \A i \in 1..Len(mob.out) : mob.out[i][1] # "execute_cmd"

C15_Witness ==
    /\ ~mob.aggressive /\ ~mob.is_dead
    /\ op.hook = "at_new_arrival"
    /\ HasTarget(mob.location)
    /\ State(mob) = "Patrolling"
    /\ mob.tickers = {StateTimer("Patrolling")}

(* C16 as claimed: a mob that does not hunt is never Hunting and never has *)
(* a do_hunt timer, and an attack tick that finds no target where the mob  *)
(* stands makes it Patrolling                                              *)
C16_Original ==
    /\ [](~mob.hunting =>
            /\ State(mob) # "Hunting" /\ ~mob.is_hunting
            /\ \A t \in mob.tickers : t[2] # "do_hunt")
    /\ [][(op'.hook = "do_attack" /\ op'.by = "ticker" /\ ~mob.hunting
           /\ State(mob) = "Attacking"
           /\ mob.location # "None" /\ ~HasTarget(mob.location)) =>
             /\ State(mob') = "Patrolling"
             /\ mob'.tickers = {StateTimer("Patrolling")}]_vars

(* C16, amended: as claimed, but the attack tick makes the mob Patrolling  *)
(* only if it patrols (db.patrolling); if it does not, the tick stops its  *)
(* timer and installs none                                                 *)
C16_NoHunting ==
    /\ [](~mob.hunting =>
            /\ State(mob) # "Hunting" /\ ~mob.is_hunting
            /\ \A t \in mob.tickers : t[2] # "do_hunt")
    /\ [][(op'.hook = "do_attack" /\ op'.by = "ticker" /\ ~mob.hunting
           /\ State(mob) = "Attacking"
           /\ mob.location # "None" /\ ~HasTarget(mob.location)) =>
             /\ mob.patrolling =>
                   /\ State(mob') = "Patrolling"
                   /\ mob'.tickers = {StateTimer("Patrolling")}
             /\ ~mob.patrolling =>
                   /\ State(mob') # "Patrolling"
                   /\ mob'.tickers = {}
                   /\ Added(mob') = {}]_vars

C16_Witness ==
    /\ op.hook = "do_attack" /\ op.by = "ticker"
    /\ ~mob.hunting /\ mob.patrolling /\ mob.aggressive
    /\ Removed(mob) = {StateTimer("Attacking")}
    /\ State(mob) = "Patrolling"
    /\ mob.tickers = {StateTimer("Patrolling")}

(* C17: at_new_arrival on an aggressive mob that is not attacking leaves   *)
(* it Attacking, with the do_attack timer at aggressive pace installed and *)
(* the timer it had removed, when the handler returns                      *)
C17_ArrivalStartsAttack ==
    [][(op'.hook = "at_new_arrival" /\ mob.aggressive
        /\ ~mob.is_attacking) =>
          /\ ~mob'.raised
          /\ State(mob') = "Attacking"
          /\ mob'.tickers = {StateTimer("Attacking")}
          /\ Added(mob') = {StateTimer("Attacking")}
          /\ mob.tickers \subseteq Removed(mob')]_vars

C17_Witness ==
    /\ op.hook = "at_new_arrival"
    /\ mob.aggressive /\ ~mob.is_dead
    /\ Removed(mob) = {StateTimer("Hunting")}
    /\ State(mob) = "Attacking"
    /\ mob.tickers = {StateTimer("Attacking")}

(* C18: a do_patrol, do_hunt or do_attack tick on a deactivated mob (dead, *)
(* no mode flag, no location) raises nothing and changes nothing           *)
C18_TickOnDeactivated ==
    [][(op'.by = "ticker"
        /\ op'.hook \in {"do_patrol", "do_hunt", "do_attack"}
        /\ mob.is_dead /\ State(mob) = "Dormant"
        /\ mob.location = "None") =>
          /\ ~mob'.raised
          /\ Lasting(mob') = Lasting(mob)
          /\ mob'.calls = << >>]_vars

(* C19: a mob deactivated by set_dead keeps its reactivation scheduled     *)
(* whatever at_hit and at_new_arrival come while it is deactivated; with   *)
(* the set_alive subscription gone no firing of a timer runs set_alive, so *)
(* this is what "eventually reactivated under weak fairness of the timers" *)
(* needs of every finite run                                               *)
C19_ReactivationStaysScheduled ==
    [][(Deactivated(mob) /\ op'.hook \in {"at_hit", "at_new_arrival"}) =>
          ReactivationTimer \in mob'.tickers]_vars

(* C20: _find_target gives, for every room, the first object in contents   *)
(* order, the mob itself left out, that has an account and is no           *)
(* superuser, and None when the room holds none; and the attack command is *)
(* only ever executed against such an object                               *)
C20_FindTarget ==
    LET where == Located(mob, charLoc)
        Index(o) == CHOOSE i \in 1..Len(Objects) : Objects[i] = o
        Valid(o, room) == /\ o # "mob"
                          /\ where[o] = room
                          /\ has_account(o) /\ ~is_superuser(o)
    IN  /\ \A room \in Rooms :
              LET t == find_target(where, room)
              IN  IF \E o \in DOMAIN where : Valid(o, room)
                  THEN /\ t \in DOMAIN where /\ Valid(t, room)
                       /\ \A o \in DOMAIN where :
                             Valid(o, room) => Index(t) <= Index(o)
                  ELSE t = "None"
        /\ \A i \in 1..Len(mob.out) :
              mob.out[i][1] = "execute_cmd" =>
                 LET t == mob.out[i][4]
                 IN  /\ t \in CharSet
                     /\ has_account(t) /\ ~is_superuser(t)
                     /\ charLoc[t] \in {mob.location, recovery_bay}

C20_Witness ==
    /\ op.hook = "do_attack" /\ mob.location = "r2"
    /\ charLoc["crate"] = "r2" /\ charLoc["admin"] = "r2"
    /\ charLoc["p1"] = "r2"
    /\ Sent(mob, "execute_cmd", "self", "attack", "p1")

(* the attack commands the handler that ran last executed *)
Attacks(s) == {i \in 1..Len(s.out) : s.out[i][1] = "execute_cmd"}

(* C21 as claimed: a do_attack tick of an Attacking mob that finds no      *)
(* target where the mob stands executes no attack command and makes the    *)
(* mob Hunting if it hunts and Patrolling if it does not; one that finds a *)
(* target executes exactly one attack command, against the first target of *)
(* the location, and leaves the mob Attacking                              *)
C21_Original ==
    [][(op'.hook = "do_attack" /\ op'.by = "ticker"
        /\ State(mob) = "Attacking" /\ mob.location # "None") =>
          IF ~HasTarget(mob.location)
          THEN /\ Attacks(mob') = {}
               /\ mob.hunting =>
                     /\ State(mob') = "Hunting"
                     /\ mob'.tickers = {StateTimer("Hunting")}
               /\ ~mob.hunting =>
                     /\ State(mob') = "Patrolling"
                     /\ mob'.tickers = {StateTimer("Patrolling")}
          ELSE /\ Cardinality(Attacks(mob')) = 1
               /\ \A i \in Attacks(mob') :
                     LET t == mob'.out[i][4]
                     IN  /\ t \in CharSet
                         /\ charLoc[t] = mob.location
                         /\ has_account(t) /\ ~is_superuser(t)
               /\ State(mob') = "Attacking"
               /\ mob'.tickers = mob.tickers
               /\ mob'.calls = << >>]_vars

(* C21, amended: as claimed, but a mob that does not hunt becomes          *)
(* Patrolling only if it patrols (db.patrolling); if it does not, its      *)
(* timer is stopped and none is installed                                  *)
C21_AttackTick ==
    [][(op'.hook = "do_attack" /\ op'.by = "ticker"
        /\ State(mob) = "Attacking" /\ mob.location # "None") =>
          IF ~HasTarget(mob.location)
          THEN /\ Attacks(mob') = {}
               /\ mob.hunting =>
                     /\ State(mob') = "Hunting"
                     /\ mob'.tickers = {StateTimer("Hunting")}
               /\ (~mob.hunting /\ mob.patrolling) =>
                     /\ State(mob') = "Patrolling"
                     /\ mob'.tickers = {StateTimer("Patrolling")}
               /\ (~mob.hunting /\ ~mob.patrolling) =>
                     /\ State(mob') \notin {"Hunting", "Patrolling"}
                     /\ mob'.tickers = {}
                     /\ Added(mob') = {}
          ELSE /\ Cardinality(Attacks(mob')) = 1
               /\ \A i \in Attacks(mob') :
                     LET t == mob'.out[i][4]
                     IN  /\ t \in CharSet
                         /\ charLoc[t] = mob.location
                         /\ has_account(t) /\ ~is_superuser(t)
               /\ State(mob') = "Attacking"
               /\ mob'.tickers = mob.tickers
               /\ mob'.calls = << >>]_vars

C21_Witness ==
    /\ op.hook = "do_attack" /\ op.by = "ticker"
    /\ mob.hunting /\ ~mob.is_dead /\ mob.location # "None"
    /\ ~HasTarget(mob.location)
    /\ Removed(mob) = {StateTimer("Attacking")}
    /\ State(mob) = "Hunting"
    /\ mob.tickers = {StateTimer("Hunting")}
    /\ Attacks(mob) = {}

(* C22: when the attack tick finds the health of its target at zero or     *)
(* below, the target is moved to db.send_defeated_to if search_object      *)
(* finds it; if not, the error is logged, nothing is raised and the target *)
(* stays where it is; either way the flags, health, location and timer of  *)
(* the mob are as before the tick                                          *)
C22_DefeatHandling ==
    [][(op'.hook = "do_attack"
        /\ \E t \in CharSet : Sent(mob', "msg", t, "defeat_msg", "")) =>
          \E t \in CharSet :
             /\ charLoc[t] = mob.location
             /\ mob'.out[1] = <<"execute_cmd", "self", "attack", t>>
             /\ mob'.out[2] = <<"msg", t, "defeat_msg", "">>
             /\ mob'.out[3] = <<"msg_contents", mob.location,
                                "defeat_msg_room", t>>
             /\ Len(mob'.out) = 4
             /\ \/ /\ mob'.out[4] = <<"move_to", t, recovery_bay, "">>
                   /\ charLoc' = [charLoc EXCEPT ![t] = recovery_bay]
                \/ /\ mob'.out[4][1] = "log_err"
                   /\ charLoc' = charLoc
             /\ ~mob'.raised
             /\ mob'.calls = << >>
             /\ Lasting(mob') = Lasting(mob)]_vars

C22_Witness ==
    /\ op.hook = "do_attack" /\ ~mob.raised
    /\ Sent(mob, "msg", "p1", "defeat_msg", "")
    /\ \E i \in 1..Len(mob.out) : mob.out[i][1] = "log_err"
    /\ charLoc["p1"] = mob.location
    /\ State(mob) = "Attacking"
    /\ mob.tickers = {StateTimer("Attacking")}

(* the health at_hit leaves, in units of 1/damage_resistance *)
HealthAfterHit(s, magic, damage) ==
    IF s.is_immortal THEN s.health
    ELSE IF magic THEN s.health - damage * damage_resistance
    ELSE s.health - damage

(* C23: every handler that installs the do_patrol timer (a mob that        *)
(* patrols enters Patrolling: from set_alive, from the fall back of        *)
(* do_hunt, from do_attack when the mob does not hunt) leaves the health   *)
(* at full_health; a handler that installs the do_hunt or the do_attack    *)
(* timer leaves the health it found, less the damage when it is at_hit     *)
C23_HealthOnEntry ==
    [][/\ StateTimer("Patrolling") \in Added(mob') =>
             /\ State(mob') = "Patrolling"
             /\ mob'.health = FullHealthUnits
       /\ (Added(mob') \cap {StateTimer("Hunting"),
                             StateTimer("Attacking")} # {}) =>
             /\ State(mob') \in {"Hunting", "Attacking"}
             /\ mob'.health = IF op'.hook = "at_hit"
                              THEN HealthAfterHit(mob, op'.magic, op'.damage)
                              ELSE mob.health]_vars

C23_Witness ==
    /\ op.hook = "do_hunt" /\ op.by = "ticker"
    /\ hits > 0 /\ ~mob.is_immortal /\ ~mob.is_dead
    /\ Removed(mob) = {StateTimer("Hunting")}
    /\ Added(mob) = {StateTimer("Patrolling")}
    /\ State(mob) = "Patrolling"
    /\ mob.health = FullHealthUnits

(* C24: whenever the mob is Patrolling, Hunting or Attacking its health is *)
(* above zero and at most full_health                                      *)
C24_HealthWhileActive ==
    State(mob) # "Dormant" =>
        (0 < mob.health /\ mob.health <= FullHealthUnits)

(* C25: at_hit or at_new_arrival on a mob deactivated by set_dead leaves   *)
(* it as it is: no damage, no mode flag, no patrol, hunt or attack timer,  *)
(* the reactivation timer neither removed nor installed again              *)
C25_EventsOnDormant ==
    [][(Deactivated(mob) /\ op'.hook \in {"at_hit", "at_new_arrival"}) =>
          /\ mob'.is_dead
          /\ State(mob') = "Dormant"
          /\ mob'.health = mob.health
          /\ mob'.tickers = mob.tickers
          /\ mob'.calls = << >>]_vars

(* at most one mode flag is set, and none on a dead mob *)
OneMode(s) ==
    /\ Cardinality({i \in 1..3 : Flags(s)[i]}) <= 1
    /\ s.is_dead => Flags(s) = <<FALSE, FALSE, FALSE>>

(* C26: in every state at most one of is_patrolling, is_hunting and        *)
(* is_attacking is true, and all three are false while the mob is dead     *)
C26_OneModeFlag == OneMode(mob)

(* C27: whenever is_attacking is true on a live mob, the timer registered  *)
(* is do_attack at the aggressive pace                                     *)
C27_AttackingHasTimer ==
    (~mob.is_dead /\ mob.is_attacking) =>
        mob.tickers = {StateTimer("Attacking")}

(* C28: once the set_alive timer has fired it is no longer registered, so  *)
(* the scheduler does not call set_alive again before the next set_dead    *)
C28_ReactivationFiresOnce ==
    [][(op'.hook = "set_alive" /\ op'.by = "ticker") =>
          \A t \in mob'.tickers : t[2] # "set_alive"]_vars

(* C29: the do_hunt timer is installed, and the mob becomes Hunting, only  *)
(* in a do_attack tick that finds no target where the mob stands; so a mob *)
(* that is not aggressive is never Hunting and never has a do_hunt timer   *)
C29_HuntingOnlyFromAttack ==
    /\ [][(\/ StateTimer("Hunting") \in Added(mob')
           \/ (State(mob') = "Hunting" /\ State(mob) # "Hunting")) =>
             /\ op'.hook = "do_attack" /\ op'.by = "ticker"
             /\ ~HasTarget(mob.location)
             /\ Attacks(mob') = {}]_vars
    /\ [](~mob.aggressive =>
             /\ State(mob) # "Hunting" /\ ~mob.is_hunting
             /\ \A t \in mob.tickers : t[2] # "do_hunt")

C29_Witness ==
    /\ op.hook = "do_attack" /\ op.by = "ticker"
    /\ mob.aggressive /\ mob.hunting /\ mob.patrolling /\ ~mob.is_dead
    /\ Removed(mob) = {StateTimer("Attacking")}
    /\ Added(mob) = {StateTimer("Hunting")}
    /\ State(mob) = "Hunting"

(* C30: at_new_arrival, or an at_hit that leaves the health above zero, on *)
(* a mob that is attacking leaves its mode flags and its timer as they     *)
(* are and calls TICKER_HANDLER neither to remove nor to add               *)
C30_AlreadyAttacking ==
    [][(op'.hook \in {"at_hit", "at_new_arrival"} /\ mob.is_attacking
        /\ mob'.health > 0) =>
          /\ Flags(mob') = Flags(mob)
          /\ mob'.tickers = mob.tickers
          /\ mob'.calls = << >>
          /\ mob'.last_ticker_interval = mob.last_ticker_interval
          /\ mob'.last_hook_key = mob.last_hook_key]_vars

C30_Witness ==
    /\ op.hook = "at_hit" /\ op.magic /\ op.damage = 10
    /\ hits = 2 /\ ~mob.is_dead /\ ~mob.is_immortal
    /\ mob.health = FullHealthUnits - 20 * damage_resistance
    /\ mob.calls = << >>
    /\ State(mob) = "Attacking"
    /\ mob.tickers = {StateTimer("Attacking")}

(* the demo command sets the caller holds *)
HeldDemoSets(s) ==
    {s.cmdset_stack[i] : i \in 1..Len(s.cmdset_stack)} \cap DemoCmdSets

(* C31: after any sequence of the goto callbacks the caller holds at most  *)
(* one of the three demo command sets and at most one set of demo room     *)
(* objects exists; after close_menu the caller holds no demo command set,  *)
(* neoeden_demo_room_data is deleted with the objects it names, and if     *)
(* this menu created a demo room the caller is where it was before the     *)
(* first one was created                                                   *)
C31_IntroMenuCleanup ==
    /\ [](/\ Cardinality(HeldDemoSets(caller)) <= 1
          /\ Cardinality(caller.objects) <= 1)
    /\ [][(caller.menu /\ caller'.last = "close_menu") =>
             /\ ~caller'.menu
             /\ HeldDemoSets(caller') = {}
             /\ caller'.demo_room_data = NoRoomData
             /\ caller'.objects = {}
             /\ caller.origin # "unset" =>
                   /\ caller.origin \in WorldRooms
                   /\ caller'.location = caller.origin]_vars

C31_Witness ==
    /\ caller.last = "close_menu" /\ ~caller.menu
    /\ caller.from = "street"
    /\ caller.origin = "plaza"
    /\ caller.location = "plaza"
    /\ caller.cmdset_stack = << >>
    /\ caller.objects = {}
    /\ caller.demo_room_data = NoRoomData

============================================================================
